---- MODULE Spec2Model ----
(***************************************************************************)
(* Monte Carlo experiments on a limit order book (notebooks/probs.py).     *)
(*                                                                         *)
(* The experiment object is the record `self`; its fields are the          *)
(* attributes the classes set.  evaluate() is stepped through its loop     *)
(* (pc).  Random draws are nondeterministic choices over the outcomes the  *)
(* draw can produce: np.random.choice yields any event whose normalised    *)
(* probability is positive, np.random.uniform() any real in [0, 1).        *)
(* Rates are small integers; only their sign and zero-ness decide which    *)
(* events can happen.                                                      *)
(***************************************************************************)
EXTENDS Integers, Sequences, FiniteSets, TLC

VARIABLES self, count, trial, pc, result, p, j, summed

vars == <<self, count, trial, pc, result, p, j, summed>>

\* ------------------------------------------------------------------ bounds
MaxOrders == 1
MaxVol == 2
MaxPos == 2
MinVol == 0 - 1
MaxTrialsSL == 5
MaxKTicks == 2
IntLimit == 1000000000

\* The configurations explored: trial counts, spreads in ticks, and rates
\* (zero or positive); lambda_ gives a rate to every distance inside the
\* widest spread.
TrialCounts == {2}
Spreads == {1, 2, 3}
Rates == {0, 1}
InSpreadRates == [{1, 2} -> Rates]

\* ------------------------------------------------------------- order book
\* order_book.OrderBook: two sorted maps price -> volume; index(0) is the
\* best level (highest bid, lowest ask).
MaxOf(S) == CHOOSE x \in S : \A y \in S : y <= x
MinOf(S) == CHOOSE x \in S : \A y \in S : x <= y

SetItem(m, price, vol) ==
    [q \in (DOMAIN m) \cup {price} |-> IF q = price THEN vol ELSE m[q]]

DelItem(m, price) == [q \in (DOMAIN m) \ {price} |-> m[q]]

MyOrderBook == [bids |-> <<>>, asks |-> <<>>]

best_bid(ob) == MaxOf(DOMAIN ob.bids)
best_ask(ob) == MinOf(DOMAIN ob.asks)

spread(ob) == best_ask(ob) - best_bid(ob)

vbbid(ob) == ob.bids[best_bid(ob)]
vbask(ob) == ob.asks[best_ask(ob)]

increment_vbask(ob) ==
    [ob EXCEPT !.asks = SetItem(ob.asks, best_ask(ob), vbask(ob) + 1)]

\* decrement_vbask() testing the volume left, not the volume found: the
\* level is deleted when one unit would remain
decrement_vbask_deletes_early(ob) ==
    IF vbask(ob) - 1 = 1
    THEN [ob EXCEPT !.asks = DelItem(ob.asks, best_ask(ob))]
    ELSE [ob EXCEPT !.asks = SetItem(ob.asks, best_ask(ob), vbask(ob) - 1)]

decrement_vbask(ob) ==
    IF vbask(ob) = 1
    THEN [ob EXCEPT !.asks = DelItem(ob.asks, best_ask(ob))]
    ELSE [ob EXCEPT !.asks = SetItem(ob.asks, best_ask(ob), vbask(ob) - 1)]

decrement_vbbid(ob) ==
    IF vbbid(ob) = 1
    THEN [ob EXCEPT !.bids = DelItem(ob.bids, best_bid(ob))]
    ELSE [ob EXCEPT !.bids = SetItem(ob.bids, best_bid(ob), vbbid(ob) - 1)]

increment_vbbid(ob) ==
    [ob EXCEPT !.bids = SetItem(ob.bids, best_bid(ob), vbbid(ob) + 1)]

\* ------------------------------------------------------------ random draws
RECURSIVE SumSeq(_)
SumSeq(s) == IF s = <<>> THEN 0 ELSE Head(s) + SumSeq(Tail(s))

\* np.random.choice(np.arange(len(rates)), p = rates / sum(rates)) raises
\* ValueError when a probability is negative or not a number (sum = 0).
choice_raises(rates) ==
    LET s == SumSeq(rates)
    IN  s = 0 \/ \E i \in 1..Len(rates) : rates[i] * s < 0

\* the draw made without p: every index can be returned
choice_uniform(rates) ==
    IF SumSeq(rates) = 0 THEN {} ELSE 0..(Len(rates) - 1)

\* The events (numbered from 0) the draw can return: those of positive
\* probability rates[i] / sum.
choice(rates) ==
    LET s == SumSeq(rates)
    IN  {e \in 0..(Len(rates) - 1) : rates[e + 1] * s > 0}

\* the comparison made with >= : a draw can "exceed" a ratio of 1
uniform_exceeds_inclusive(num, den) ==
    {b \in BOOLEAN :
        IF b THEN (den > 0 /\ num <= den) \/ (den < 0 /\ num >= den)
             ELSE den # 0 /\ num * den > 0}

\* The outcomes of `np.random.uniform() > num / den` over the draws in
\* [0, 1): TRUE needs num/den < 1, FALSE needs num/den >= 0.
uniform_exceeds(num, den) ==
    {b \in BOOLEAN :
        IF b THEN (den > 0 /\ num < den) \/ (den < 0 /\ num > den)
             ELSE den # 0 /\ num * den >= 0}

\* ------------------------------------------------------ BidOrderExecution
\* update_state() whose market order moves the queue position without the
\* `if self.bid_idx > 0` guard
BidOrderExecution_update_state_unguarded(s, event, gt) ==
    CASE event = 0 -> [s EXCEPT !.xb = @ + 1]
      [] event = 1 -> [s EXCEPT !.xa = @ + 1]
      [] event = 2 -> [s EXCEPT !.xb = @ - 1, !.bid_idx = @ - 1]
      [] event = 3 -> [s EXCEPT !.xa = @ - 1]
      [] event = 4 -> [s EXCEPT !.xb = @ - 1,
                                !.bid_idx = IF gt THEN @ - 1 ELSE @]
      [] event = 5 -> [s EXCEPT !.xa = @ - 1]
      [] OTHER -> s

BidOrderExecution_reset_state(s) ==
    [xb |-> s.bbid_orders, xa |-> s.bask_orders, bid_idx |-> s.bid_pos] @@ s

BidOrderExecution_success(s) == s.bid_idx = 0

BidOrderExecution_failure(s) == s.xa = 0

BidOrderExecution_xb_rate(s) == IF s.bid_idx = 0 THEN s.xb ELSE s.xb - 1

BidOrderExecution_pevent(s) ==
    LET lamda == s.params.lamda
        mu == s.params.mu
        theta == s.params.theta
        xb_rate == BidOrderExecution_xb_rate(s)
        xs_rate == s.xa
    IN  <<lamda, lamda, mu, mu, theta * xb_rate, theta * xs_rate>>

BidOrderExecution_update_state(s, event, gt) ==
    CASE event = 0 -> [s EXCEPT !.xb = @ + 1]
      [] event = 1 -> [s EXCEPT !.xa = @ + 1]
      [] event = 2 -> [s EXCEPT !.xb = @ - 1,
                                !.bid_idx = @ - (IF s.bid_idx > 0 THEN 1 ELSE 0)]
      [] event = 3 -> [s EXCEPT !.xa = @ - 1]
      [] event = 4 -> [s EXCEPT !.xb = @ - 1,
                                !.bid_idx = IF gt THEN @ - 1 ELSE @]
      [] event = 5 -> [s EXCEPT !.xa = @ - 1]
      [] OTHER -> s

\* ----------------------------------------------------------- MakingSpread
\* reset_state() without its last line: ask_idx keeps the previous trial's value
MakingSpread_reset_state_stale_ask_idx(s) ==
    [xb |-> s.bbid_orders, xa |-> s.bask_orders, bid_idx |-> s.bid_pos,
     ask_idx |-> IF "ask_idx" \in DOMAIN s THEN s.ask_idx ELSE s.ask_pos] @@ s

MakingSpread_reset_state(s) ==
    [xb |-> s.bbid_orders, xa |-> s.bask_orders,
     bid_idx |-> s.bid_pos, ask_idx |-> s.ask_pos] @@ s

\* the bid cancellation rate that counts the owner's order as cancellable
MakingSpread_xb_rate_whole(s) == s.xb

MakingSpread_xb_rate(s) == IF s.bid_idx = 0 THEN s.xb ELSE s.xb - 1

MakingSpread_xa_rate(s) == IF s.ask_idx = 0 THEN s.xa ELSE s.xa - 1

MakingSpread_pevent(s) ==
    LET lamda == s.params.lamda
        mu == s.params.mu
        theta == s.params.theta
        xb_rate == MakingSpread_xb_rate(s)
        xa_rate == MakingSpread_xa_rate(s)
    IN  <<lamda, lamda, mu, mu, theta * xb_rate, theta * xa_rate>>

\* update_state() whose cancellations always move the owner up the queue,
\* whatever the uniform draw
MakingSpread_update_state_always_ahead(s, event, gt) ==
    CASE event = 0 -> [s EXCEPT !.xb = @ + 1]
      [] event = 1 -> [s EXCEPT !.xa = @ + 1]
      [] event = 2 -> [s EXCEPT !.xb = @ - 1,
                                !.bid_idx = @ - (IF s.bid_idx > 0 THEN 1 ELSE 0)]
      [] event = 3 -> [s EXCEPT !.xa = @ - 1,
                                !.ask_idx = @ - (IF s.ask_idx > 0 THEN 1 ELSE 0)]
      [] event = 4 -> [s EXCEPT !.xb = @ - 1, !.bid_idx = @ - 1]
      [] event = 5 -> [s EXCEPT !.xa = @ - 1, !.ask_idx = @ - 1]
      [] OTHER -> s

MakingSpread_update_state(s, event, gt) ==
    CASE event = 0 -> [s EXCEPT !.xb = @ + 1]
      [] event = 1 -> [s EXCEPT !.xa = @ + 1]
      [] event = 2 -> [s EXCEPT !.xb = @ - 1,
                                !.bid_idx = @ - (IF s.bid_idx > 0 THEN 1 ELSE 0)]
      [] event = 3 -> [s EXCEPT !.xa = @ - 1,
                                !.ask_idx = @ - (IF s.ask_idx > 0 THEN 1 ELSE 0)]
      [] event = 4 -> [s EXCEPT !.xb = @ - 1,
                                !.bid_idx = IF gt THEN @ - 1 ELSE @]
      [] event = 5 -> [s EXCEPT !.xa = @ - 1,
                                !.ask_idx = IF gt THEN @ - 1 ELSE @]
      [] OTHER -> s

\* failure() pairing each side's volume with the owner's index on that side
MakingSpread_failure_same_side(s) ==
    \/ s.xb = 0 /\ s.bid_idx > 0
    \/ s.xa = 0 /\ s.ask_idx > 0

MakingSpread_failure(s) ==
    \/ s.xb = 0 /\ s.ask_idx > 0
    \/ s.xa = 0 /\ s.bid_idx > 0

MakingSpread_success(s) == s.bid_idx = 0 /\ s.ask_idx = 0

\* ------------------------------------------------------------- MidpriceUp
\* [lambda_(i) for i in range(1, self.S)]
birth_inspread(s) == [i \in 1..(s.S - 1) |-> s.params.lambda_[i]]

MidpriceUp_reset_state(s) ==
    [xb |-> s.bbid_orders, xa |-> s.bask_orders, S |-> s.spread,
     ob |-> [asks |-> SetItem(MyOrderBook.asks, s.spread, s.bask_orders),
             bids |-> SetItem(MyOrderBook.bids, 0, s.bbid_orders)]] @@ s

\* success() that takes any change of the number of levels for a rise
MidpriceUp_success_any_change(s) ==
    Cardinality(DOMAIN s.ob.bids) # 1 \/ Cardinality(DOMAIN s.ob.asks) # 1

MidpriceUp_success(s) ==
    Cardinality(DOMAIN s.ob.bids) > 1 \/ Cardinality(DOMAIN s.ob.asks) = 0

\* failure() without its second test: an emptied bid side is not noticed
MidpriceUp_failure_asks_only(s) == Cardinality(DOMAIN s.ob.asks) > 1

MidpriceUp_failure(s) ==
    Cardinality(DOMAIN s.ob.asks) > 1 \/ Cardinality(DOMAIN s.ob.bids) = 0

MidpriceUp_pevent(s) ==
    LET lamda == s.params.lamda
        mu == s.params.mu
        theta == s.params.theta
        birth_bid == lamda
        birth_ask == lamda
        death_bid == mu + theta * vbbid(s.ob)
        death_ask == mu + theta * vbask(s.ob)
    IN  <<birth_bid, birth_ask, death_bid, death_ask>>
            \o birth_inspread(s) \o birth_inspread(s)

MidpriceUp_update_state(s, event, gt) ==
    CASE event = 0 -> [s EXCEPT !.ob = increment_vbbid(@)]
      [] event = 1 -> [s EXCEPT !.ob = increment_vbask(@)]
      [] event = 2 -> [s EXCEPT !.ob = decrement_vbbid(@)]
      [] event = 3 -> [s EXCEPT !.ob = decrement_vbask(@)]
      [] event >= 4 /\ event < 4 + s.S ->
            LET inspread_dist == event - 3
                new_bask == best_ask(s.ob) - inspread_dist
            IN  [s EXCEPT !.ob.asks = SetItem(@, new_bask, 1)]
      [] event >= 4 + s.S ->
            LET inspread_dist == event - 3 - s.S
                new_bbid == best_bid(s.ob) + inspread_dist
            IN  [s EXCEPT !.ob.bids = SetItem(@, new_bbid, 1)]
      [] OTHER -> s

\* ---------------------------------------------------------- MakingSpreadS
MakingSpreadS_reset_state(s) ==
    [xb |-> s.bbid_orders, xa |-> s.bask_orders, S |-> s.spread,
     bid_idx |-> s.bid_pos, ask_idx |-> s.ask_pos,
     ob |-> [asks |-> SetItem(MyOrderBook.asks, s.spread, s.bask_orders),
             bids |-> SetItem(MyOrderBook.bids, 0, s.bbid_orders)]] @@ s

MakingSpreadS_xb_rate(s) ==
    IF s.bid_idx = 0 THEN vbbid(s.ob) ELSE vbbid(s.ob) - 1
MakingSpreadS_xa_rate(s) ==
    IF s.ask_idx = 0 THEN vbask(s.ob) ELSE vbask(s.ob) - 1

MakingSpreadS_pevent(s) ==
    LET lamda == s.params.lamda
        mu == s.params.mu
        theta == s.params.theta
        birth_bid == lamda
        birth_ask == lamda
        market_buy == mu
        market_sell == mu
        death_bid == theta * MakingSpreadS_xb_rate(s)
        death_ask == theta * MakingSpreadS_xa_rate(s)
    IN  <<birth_bid, birth_ask, market_buy, market_sell, death_bid, death_ask>>
            \o birth_inspread(s) \o birth_inspread(s)

MakingSpreadS_update_state(s, event, gt) ==
    CASE event = 0 -> [s EXCEPT !.ob = increment_vbbid(@)]
      [] event = 1 -> [s EXCEPT !.ob = increment_vbask(@)]
      [] event = 2 -> [s EXCEPT !.ob = decrement_vbbid(@),
                                !.bid_idx = @ - (IF s.bid_idx > 0 THEN 1 ELSE 0)]
      [] event = 3 -> [s EXCEPT !.ob = decrement_vbask(@),
                                !.ask_idx = @ - (IF s.ask_idx > 0 THEN 1 ELSE 0)]
      [] event = 4 -> [s EXCEPT !.bid_idx = IF gt THEN @ - 1 ELSE @,
                                !.ob = decrement_vbbid(@)]
      [] event = 5 -> [s EXCEPT !.ask_idx = IF gt THEN @ - 1 ELSE @,
                                !.ob = decrement_vbask(@)]
      [] event >= 6 /\ event < 6 + s.S ->
            LET inspread_dist == event - 5
                new_bask == best_ask(s.ob) - inspread_dist
            IN  [s EXCEPT !.ob.asks = SetItem(@, new_bask, 1)]
      [] event >= 6 + s.S ->
            LET inspread_dist == event - 5 - s.S
                new_bbid == best_bid(s.ob) + inspread_dist
            IN  [s EXCEPT !.ob.bids = SetItem(@, new_bbid, 1)]
      [] OTHER -> s

\* failure() pairing each side's levels with the owner's index on that side
MakingSpreadS_failure_same_side(s) ==
    \/ Cardinality(DOMAIN s.ob.bids) > 1 /\ s.bid_idx > 0
    \/ Cardinality(DOMAIN s.ob.asks) > 1 /\ s.ask_idx > 0
    \/ Cardinality(DOMAIN s.ob.bids) = 0 /\ s.bid_idx > 0
    \/ Cardinality(DOMAIN s.ob.asks) = 0 /\ s.ask_idx > 0

MakingSpreadS_failure(s) ==
    \/ /\ Cardinality(DOMAIN s.ob.bids) > 1 \/ Cardinality(DOMAIN s.ob.asks) > 1
       /\ s.ask_idx # 0 \/ s.bid_idx # 0
    \/ Cardinality(DOMAIN s.ob.asks) = 0 /\ s.bid_idx > 0
    \/ Cardinality(DOMAIN s.ob.bids) = 0 /\ s.ask_idx > 0

MakingSpreadS_success(s) == s.bid_idx = 0 /\ s.ask_idx = 0

\* ------------------------------------------------- MonteCarloExperiment
BookModels == {"MidpriceUp", "MakingSpreadS"}
OwnerModels == {"BidOrderExecution", "MakingSpread", "MakingSpreadS"}

reset_state(s) ==
    CASE s.cls = "BidOrderExecution" -> BidOrderExecution_reset_state(s)
      [] s.cls = "MakingSpread" -> MakingSpread_reset_state(s)
      [] s.cls = "MidpriceUp" -> MidpriceUp_reset_state(s)
      [] s.cls = "MakingSpreadS" -> MakingSpreadS_reset_state(s)

success(s) ==
    CASE s.cls = "BidOrderExecution" -> BidOrderExecution_success(s)
      [] s.cls = "MakingSpread" -> MakingSpread_success(s)
      [] s.cls = "MidpriceUp" -> MidpriceUp_success(s)
      [] s.cls = "MakingSpreadS" -> MakingSpreadS_success(s)

failure(s) ==
    CASE s.cls = "BidOrderExecution" -> BidOrderExecution_failure(s)
      [] s.cls = "MakingSpread" -> MakingSpread_failure(s)
      [] s.cls = "MidpriceUp" -> MidpriceUp_failure(s)
      [] s.cls = "MakingSpreadS" -> MakingSpreadS_failure(s)

pevent(s) ==
    CASE s.cls = "BidOrderExecution" -> BidOrderExecution_pevent(s)
      [] s.cls = "MakingSpread" -> MakingSpread_pevent(s)
      [] s.cls = "MidpriceUp" -> MidpriceUp_pevent(s)
      [] s.cls = "MakingSpreadS" -> MakingSpreadS_pevent(s)

update_state(s, event, gt) ==
    CASE s.cls = "BidOrderExecution" -> BidOrderExecution_update_state(s, event, gt)
      [] s.cls = "MakingSpread" -> MakingSpread_update_state(s, event, gt)
      [] s.cls = "MidpriceUp" -> MidpriceUp_update_state(s, event, gt)
      [] s.cls = "MakingSpreadS" -> MakingSpreadS_update_state(s, event, gt)

\* index(0) on a side without levels raises IndexError (vbbid / vbask are
\* read while the rates are built).
index_raises(s) ==
    /\ s.cls \in BookModels
    /\ DOMAIN s.ob.bids = {} \/ DOMAIN s.ob.asks = {}

update_raises(s) ==
    IF index_raises(s) THEN TRUE ELSE choice_raises(pevent(s))

\* The outcomes of the uniform comparison a cancellation event makes; the
\* other events make none.
cancel_draw(s, event) ==
    CASE s.cls = "BidOrderExecution" /\ event = 4 ->
            uniform_exceeds(s.xb - s.bid_idx, BidOrderExecution_xb_rate(s))
      [] s.cls = "MakingSpread" /\ event = 4 ->
            uniform_exceeds(s.xb - s.bid_idx, MakingSpread_xb_rate(s))
      [] s.cls = "MakingSpread" /\ event = 5 ->
            uniform_exceeds(s.xa - s.ask_idx, MakingSpread_xa_rate(s))
      [] s.cls = "MakingSpreadS" /\ event = 4 ->
            uniform_exceeds(vbbid(s.ob) - s.bid_idx, MakingSpreadS_xb_rate(s))
      [] s.cls = "MakingSpreadS" /\ event = 5 ->
            uniform_exceeds(vbask(s.ob) - s.ask_idx, MakingSpreadS_xa_rate(s))
      [] OTHER -> {FALSE}

\* Volumes are unbounded in the program (a degenerate start lets them go
\* negative); the model explores those within MinVol .. MaxVol.
Volumes(s) ==
    IF s.cls \in BookModels
    THEN {s.ob.bids[q] : q \in DOMAIN s.ob.bids}
            \cup {s.ob.asks[q] : q \in DOMAIN s.ob.asks}
    ELSE {s.xb, s.xa}

InBounds(s) == \A v \in Volumes(s) : v >= MinVol /\ v <= MaxVol

\* evaluate(): for trial in range(self.trials): self.reset_state()
ForTrial ==
    /\ pc = "for"
    /\ trial < self.trials
    /\ self' = reset_state(self)
    /\ pc' = "update"
    /\ UNCHANGED <<count, trial, result, p, j, summed>>

\* evaluate(): self.update_state() at the top of the while loop
UpdateState ==
    /\ pc = "update"
    /\ ~update_raises(self)
    /\ \E event \in choice(pevent(self)) :
         \E gt \in cancel_draw(self, event) :
            /\ InBounds(update_state(self, event, gt))
            /\ self' = update_state(self, event, gt)
    /\ pc' = "success"
    /\ UNCHANGED <<count, trial, result, p, j, summed>>

\* update_state() raises (ValueError from the draw, IndexError from an
\* empty side): the exception leaves evaluate().
UpdateRaises ==
    /\ pc = "update"
    /\ update_raises(self)
    /\ pc' = "raised"
    /\ UNCHANGED <<self, count, trial, result, p, j, summed>>

\* the success branch without its break: the loop goes on after counting
CheckSuccess_no_break ==
    /\ pc = "success"
    /\ IF success(self)
       THEN count' = count + 1 /\ pc' = "update" /\ UNCHANGED trial
       ELSE pc' = "failure" /\ UNCHANGED <<count, trial>>
    /\ UNCHANGED <<self, result, p, j, summed>>

\* the two checks in the other order: failure() is asked first
CheckSuccess_failure_first ==
    /\ pc = "success"
    /\ IF failure(self)
       THEN trial' = trial + 1 /\ pc' = "for" /\ UNCHANGED count
       ELSE IF success(self)
            THEN count' = count + 1 /\ trial' = trial + 1 /\ pc' = "for"
            ELSE pc' = "failure" /\ UNCHANGED <<count, trial>>
    /\ UNCHANGED <<self, result, p, j, summed>>

\* evaluate(): if self.success(): count += 1; break
CheckSuccess ==
    /\ pc = "success"
    /\ IF success(self)
       THEN count' = count + 1 /\ trial' = trial + 1 /\ pc' = "for"
       ELSE pc' = "failure" /\ UNCHANGED <<count, trial>>
    /\ UNCHANGED <<self, result, p, j, summed>>

\* the failure branch counting the trial as well
CheckFailure_counts ==
    /\ pc = "failure"
    /\ IF failure(self)
       THEN count' = count + 1 /\ trial' = trial + 1 /\ pc' = "for"
       ELSE pc' = "update" /\ UNCHANGED <<count, trial>>
    /\ UNCHANGED <<self, result, p, j, summed>>

\* evaluate(): elif self.failure(): break
CheckFailure ==
    /\ pc = "failure"
    /\ IF failure(self)
       THEN trial' = trial + 1 /\ pc' = "for"
       ELSE pc' = "update" /\ UNCHANGED trial
    /\ UNCHANGED <<self, count, result, p, j, summed>>

\* evaluate(): return count / self.trials
Return ==
    /\ pc = "for"
    /\ trial >= self.trials
    /\ result' = <<count, self.trials>>
    /\ pc' = "done"
    /\ UNCHANGED <<self, count, trial, p, j, summed>>

Params == [lamda : Rates, mu : Rates, theta : Rates]
BookParams == [lamda : Rates, mu : Rates, theta : Rates, lambda_ : InSpreadRates]

\* The experiment objects as their constructors leave them.
Experiments ==
    {BidOrderExecution_reset_state(c) :
        c \in [cls : {"BidOrderExecution"}, trials : TrialCounts, params : Params,
               bbid_orders : 0..MaxOrders, bask_orders : 0..MaxOrders,
               bid_pos : 0..MaxPos]}
    \cup
    {MakingSpread_reset_state(c) :
        c \in [cls : {"MakingSpread"}, trials : TrialCounts, params : Params,
               bbid_orders : 0..MaxOrders, bask_orders : 0..MaxOrders,
               bid_pos : 0..MaxPos, ask_pos : 0..MaxPos]}
    \cup
    {MidpriceUp_reset_state(c) :
        c \in [cls : {"MidpriceUp"}, trials : TrialCounts, params : BookParams,
               bbid_orders : 0..MaxOrders, bask_orders : 0..MaxOrders,
               spread : Spreads]}
    \cup
    {MakingSpreadS_reset_state(c) :
        c \in [cls : {"MakingSpreadS"}, trials : TrialCounts, params : BookParams,
               bbid_orders : 0..MaxOrders, bask_orders : 0..MaxOrders,
               bid_pos : 0..MaxPos, ask_pos : 0..MaxPos,
               spread : Spreads]}

Init ==
    /\ self \in Experiments
    /\ count = 0
    /\ trial = 0
    /\ pc = "for"
    /\ result = <<>>
    /\ p = <<>>
    /\ j = 0
    /\ summed = 0

Next ==
    \/ ForTrial
    \/ UpdateState
    \/ UpdateRaises
    \/ CheckSuccess
    \/ CheckFailure
    \/ Return

Spec == Init /\ [][Next]_vars

\* ----------------------------------------------------------------- claims
\* C1: in each of the four models, for any trials >= 1, the success counter
\* satisfies 0 <= count <= trials at every point of evaluate(), so the value
\* count / trials it returns lies in [0, 1].
C1_CountWithinTrials ==
    /\ self.trials >= 1
    /\ 0 <= count /\ count <= trial /\ trial <= self.trials
    /\ pc = "done" =>
          /\ result = <<count, self.trials>>
          /\ 0 <= result[1] /\ result[1] <= result[2] /\ result[2] >= 1

\* evaluate() has returned a value strictly inside (0, 1)
C1_Witness == pc = "done" /\ 0 < count /\ count < self.trials

\* C2: in every iteration update_state() comes first, success() is asked
\* next, failure() is asked only after success() was not true; a state in
\* which both predicates hold ends the trial as a success.
C2_CheckOrder ==
    [][ /\ pc' = "success" => pc = "update"
        /\ pc' = "failure" => pc = "success" /\ ~success(self) /\ self' = self
        /\ (pc = "success" /\ success(self) /\ failure(self)) =>
              (pc' = "for" /\ count' = count + 1 /\ trial' = trial + 1)
        /\ (pc = "failure" /\ pc' = "for") => ~success(self) ]_vars

\* after an update both predicates hold at the success check
C2_Witness ==
    pc = "success" /\ trial < self.trials /\ success(self) /\ failure(self)

\* C3: a trial ends in exactly one outcome.  The counter moves only by one,
\* only at a true success(), which ends the trial; a true failure() ends the
\* trial without counting; update_state() is applied only to a freshly
\* reset state or after both checks were not true.
C3_OneOutcome ==
    [][ /\ count' # count =>
              (count' = count + 1 /\ pc = "success" /\ success(self))
        /\ trial' # trial =>
              (trial' = trial + 1 /\ pc' = "for" /\ pc \in {"success", "failure"})
        /\ (pc = "success" /\ success(self)) =>
              (count' = count + 1 /\ trial' = trial + 1 /\ pc' = "for")
        /\ (pc = "failure" /\ failure(self)) =>
              (count' = count /\ trial' = trial + 1 /\ pc' = "for")
        /\ pc' = "update" =>
              \/ pc = "for" /\ trial' = trial
              \/ pc = "failure" /\ ~success(self) /\ ~failure(self)
        /\ self' # self =>
              \/ pc = "update" /\ pc' = "success"
              \/ pc = "for" /\ pc' = "update" ]_vars

\* two trials have ended, one as a success and one as a failure
C3_Witness == pc = "for" /\ trial = 2 /\ count = 1

\* The configured starting configuration, written out attribute by attribute.
StartingConfiguration(s) ==
    /\ s.xb = s.bbid_orders
    /\ s.xa = s.bask_orders
    /\ s.cls \in OwnerModels => s.bid_idx = s.bid_pos
    /\ s.cls \in {"MakingSpread", "MakingSpreadS"} => s.ask_idx = s.ask_pos
    /\ s.cls \in BookModels =>
          /\ s.S = s.spread
          /\ DOMAIN s.ob.bids = {0}
          /\ s.ob.bids[0] = s.bbid_orders
          /\ DOMAIN s.ob.asks = {s.spread}
          /\ s.ob.asks[s.spread] = s.bask_orders

ConfigurationOf(s) ==
    [f \in (DOMAIN s) \ {"xb", "xa", "bid_idx", "ask_idx", "S", "ob"} |-> s[f]]

\* C4: the reset_state() that opens a trial leaves the starting
\* configuration whatever state the previous trial ended in, keeps the
\* configured attributes, and a second reset_state() changes nothing more.
C4_ResetToStart ==
    [][ (pc = "for" /\ pc' = "update") =>
            /\ StartingConfiguration(self')
            /\ ConfigurationOf(self') = ConfigurationOf(self)
            /\ reset_state(self') = self'
            /\ reset_state(reset_state(self)) = reset_state(self) ]_vars

\* a later trial, just reset, after an earlier one has run
C4_Witness ==
    /\ pc = "update" /\ trial >= 1
    /\ StartingConfiguration(self)
    /\ self.cls = "MakingSpreadS"

\* ------------------------------------------------------- StopLossReaching
\* Probabilities are exact fractions.  p = 1 - count / trials has the
\* denominator trials; every binomial mass of evaluate() is carried over
\* the common denominator trials ^ Nmax(k, trials), the power of its last
\* term.
RECURSIVE Pow(_, _)
Pow(b, e) == IF e = 0 THEN 1 ELSE b * Pow(b, e - 1)

\* min(b ^ e, cap + 1), computed without leaving the machine integers
RECURSIVE PowCap(_, _, _)
PowCap(b, e, cap) ==
    IF e = 0 THEN 1
    ELSE LET r == PowCap(b, e - 1, cap)
         IN  IF r > cap \div b THEN cap + 1 ELSE r * b

RECURSIVE Binomial(_, _)
Binomial(n, r) ==
    IF r = 0 THEN 1 ELSE (Binomial(n - 1, r - 1) * n) \div r

Nmax(k, trials) == k + 2 * (trials - 1)

\* binom.pmf(k = x, n = n, p = pn / pd) as a numerator over pd ^ nmax
binom_pmf(x, n, pn, pd, nmax) ==
    Binomial(n, x) * (Pow(pn, x) * Pow(pd - pn, n - x) * Pow(pd, nmax - n))

\* The value evaluate() returns for base probability pn / pd, as a
\* numerator over pd ^ nmax: the sum over j in range(1, trials).
RECURSIVE stop_loss_sum(_, _, _, _, _)
stop_loss_sum(pn, pd, k, trials, nmax) ==
    IF trials <= 1 THEN 0
    ELSE stop_loss_sum(pn, pd, k, trials - 1, nmax)
            + binom_pmf(trials - 1, k + 2 * (trials - 1), pn, pd, nmax)

\* the loop body assigning the mass to summed instead of adding it
StopLossStep_overwrites ==
    /\ pc = "sl_for"
    /\ j < self.trials
    /\ LET k == self.k_ticks
           n == k + 2 * j
       IN  summed' =
                binom_pmf((n - k) \div 2, n, p[1], p[2], Nmax(k, self.trials))
    /\ j' = j + 1
    /\ UNCHANGED <<self, count, trial, pc, result, p>>

\* evaluate(): for j in range(1, self.trials):
\*                 n = k + 2 * j; summed += binom.pmf(k=(n - k) / 2, n=n, p=p)
StopLossStep ==
    /\ pc = "sl_for"
    /\ j < self.trials
    /\ LET k == self.k_ticks
           n == k + 2 * j
       IN  summed' = summed
                + binom_pmf((n - k) \div 2, n, p[1], p[2], Nmax(k, self.trials))
    /\ j' = j + 1
    /\ UNCHANGED <<self, count, trial, pc, result, p>>

\* evaluate(): return summed
StopLossReturn ==
    /\ pc = "sl_for"
    /\ j >= self.trials
    /\ result' = <<summed, Pow(p[2], Nmax(self.k_ticks, self.trials))>>
    /\ pc' = "done"
    /\ UNCHANGED <<self, count, trial, p, j, summed>>

\* The exact arithmetic of a configuration (and of its neighbours k + 1
\* and trials + 1) stays within the machine integers.
Representable(k, trials) == PowCap(trials, k + 2 * trials, IntLimit) <= IntLimit

\* StopLossReaching.evaluate() after super().evaluate() has returned
\* count / trials and p = 1 - count / trials is set.
InitSL ==
    /\ \E t \in 1..MaxTrialsSL, k \in 1..MaxKTicks, c \in 0..MaxTrialsSL :
          /\ c <= t
          /\ Representable(k, t)
          /\ self = [cls |-> "StopLossReaching", trials |-> t, k_ticks |-> k]
          /\ count = c
          /\ trial = t
          /\ p = <<t - c, t>>
    /\ pc = "sl_for"
    /\ result = <<>>
    /\ j = 1
    /\ summed = 0

NextSL ==
    \/ StopLossStep
    \/ StopLossReturn

SpecSL == InitSL /\ [][NextSL]_vars

\* The volumes of the levels present in the book of a book-aware model.
LevelVolumes(s) ==
    {s.ob.bids[q] : q \in DOMAIN s.ob.bids}
        \cup {s.ob.asks[q] : q \in DOMAIN s.ob.asks}

\* C5: after any sequence of increments at best, decrements at best and
\* in-spread insertions, every level present in the book has volume >= 1
\* (stated for positive arrival and market-order rates).
C5_LevelsPositive ==
    (/\ self.cls \in BookModels /\ pc = "success"
     /\ self.params.lamda > 0 /\ self.params.mu > 0) =>
        \A v \in LevelVolumes(self) : v >= 1

\* C6: in the book-aware models (started with volumes >= 1 and positive
\* arrival and market-order rates), whenever both sides hold a level, the
\* best bid price is below the best ask price.
C6_BidBelowAsk ==
    (/\ self.cls \in BookModels
     /\ self.bbid_orders >= 1 /\ self.bask_orders >= 1
     /\ self.params.lamda > 0 /\ self.params.mu > 0
     /\ DOMAIN self.ob.bids # {}
     /\ DOMAIN self.ob.asks # {}) => best_bid(self.ob) < best_ask(self.ob)

\* C7: BidOrderExecution with bid_pos = 0: success() is true at the first
\* check of every trial, failure() is never asked, and evaluate() returns
\* count / trials = 1.
C7_ImmediateSuccess ==
    (self.cls = "BidOrderExecution" /\ self.bid_pos = 0) =>
        /\ pc = "success" => success(self)
        /\ pc # "failure"
        /\ count = trial
        /\ pc = "done" => result[1] = result[2]

\* evaluate() has returned 1 after two trials that began at the queue front
C7_Witness ==
    /\ self.cls = "BidOrderExecution" /\ self.bid_pos = 0
    /\ pc = "done" /\ self.trials = 2 /\ result = <<2, 2>>

\* C8: MakingSpread with bask_orders = 0 (the other volumes and positions
\* at least 1, positive arrival and market-order rates): at every check of a trial failure() is true and success()
\* is not, no trial is counted, and evaluate() returns 0.
C8_ImmediateFailure ==
    (/\ self.cls = "MakingSpread" /\ self.bask_orders = 0
     /\ self.bbid_orders >= 1 /\ self.bid_pos >= 1 /\ self.ask_pos >= 1
     /\ self.params.lamda > 0 /\ self.params.mu > 0) =>
        /\ pc \in {"success", "failure"} => (failure(self) /\ ~success(self))
        /\ count = 0
        /\ pc = "done" => result[1] = 0

\* C9: StopLossReaching.evaluate() returns a value in [0, 1].
C9_UnitInterval ==
    (self.cls = "StopLossReaching" /\ pc = "done") =>
        (0 <= result[1] /\ result[1] <= result[2])

\* C10: with p and trials fixed, the value for k_ticks + 1 is at most the
\* value for k_ticks (the two are compared over the denominator
\* trials ^ Nmax(k + 1, trials)).
C10_NonIncreasingInK ==
    (self.cls = "StopLossReaching" /\ pc = "done") =>
        stop_loss_sum(p[1], p[2], self.k_ticks + 1, self.trials,
                      Nmax(self.k_ticks + 1, self.trials))
            <= result[1] * p[2]

\* C11: with p and k_ticks fixed, the value for trials + 1 is at least the
\* value for trials: every pass of the loop adds a mass >= 0 taken at the
\* integer success count j of n = k + 2j steps, the value returned is the sum
\* of the masses for j = 1 .. trials - 1, and one more term does not lower it
\* (the two values are compared over the denominator
\* trials ^ Nmax(k, trials + 1)).
C11_NonDecreasingInTrials ==
    [][ /\ summed' >= summed
        /\ (pc = "sl_for" /\ j' # j) =>
              /\ (self.k_ticks + 2 * j - self.k_ticks) % 2 = 0
              /\ (self.k_ticks + 2 * j - self.k_ticks) \div 2 = j
        /\ pc' = "done" =>
              /\ result'[1] = stop_loss_sum(p[1], p[2], self.k_ticks, self.trials,
                                            Nmax(self.k_ticks, self.trials))
              /\ stop_loss_sum(p[1], p[2], self.k_ticks, self.trials + 1,
                               Nmax(self.k_ticks, self.trials + 1))
                    >= result'[1] * p[2] * p[2] ]_vars

\* a returned value that one more trial strictly raises
C11_Witness ==
    /\ self.cls = "StopLossReaching" /\ pc = "done" /\ self.trials >= 3
    /\ result[1] > 0
    /\ stop_loss_sum(p[1], p[2], self.k_ticks, self.trials + 1,
                     Nmax(self.k_ticks, self.trials + 1))
            > result[1] * p[2] * p[2]

\* ------------------------------------------------- MyOrderBook, on its own
\* The methods of MyOrderBook called one after another on a book: self.ob
\* is the book, result the names of the calls made, p the books the
\* successful calls started from and led to (p[i] is the book before call
\* i), pc the exception that left the last call, if any.
MaxOps == 2

BidPrices == {0 - 1, 0}
AskPrices == {1, 2}

Levels(prices) == UNION {[P -> MinVol..MaxVol] : P \in SUBSET prices}

Books == [bids : Levels(BidPrices), asks : Levels(AskPrices)]

\* index(0) of a side without levels raises IndexError
bids_index_raises(ob) == DOMAIN ob.bids = {}
asks_index_raises(ob) == DOMAIN ob.asks = {}

\* A call that returns, leaving the book ob2.
OBReturns(name, ob2) ==
    /\ self' = [self EXCEPT !.ob = ob2]
    /\ result' = Append(result, name)
    /\ p' = Append(p, ob2)
    /\ UNCHANGED <<count, trial, pc, j, summed>>

\* A call left by an exception: nothing was assigned.
OBRaises(name, errors) ==
    /\ pc' \in errors
    /\ result' = Append(result, name)
    /\ UNCHANGED <<self, count, trial, p, j, summed>>

OBCall == pc = "ob" /\ Len(result) < MaxOps

\* spread(): the assert fails on an empty side; without assertions the
\* index(0) of the empty side raises.
OB_spread ==
    /\ OBCall
    /\ IF bids_index_raises(self.ob) \/ asks_index_raises(self.ob)
       THEN OBRaises("spread", {"AssertionError", "IndexError"})
       ELSE OBReturns("spread", self.ob)

OB_vbbid ==
    /\ OBCall
    /\ IF bids_index_raises(self.ob)
       THEN OBRaises("vbbid", {"IndexError"})
       ELSE OBReturns("vbbid", self.ob)

OB_vbask ==
    /\ OBCall
    /\ IF asks_index_raises(self.ob)
       THEN OBRaises("vbask", {"IndexError"})
       ELSE OBReturns("vbask", self.ob)

\* increment_vbask() returning on a side without levels, the book as it was
OB_increment_vbask_silent ==
    /\ OBCall
    /\ IF asks_index_raises(self.ob)
       THEN OBReturns("increment_vbask", self.ob)
       ELSE OBReturns("increment_vbask", increment_vbask(self.ob))

OB_increment_vbask ==
    /\ OBCall
    /\ IF asks_index_raises(self.ob)
       THEN OBRaises("increment_vbask", {"IndexError"})
       ELSE OBReturns("increment_vbask", increment_vbask(self.ob))

OB_decrement_vbask ==
    /\ OBCall
    /\ IF asks_index_raises(self.ob)
       THEN OBRaises("decrement_vbask", {"IndexError"})
       ELSE OBReturns("decrement_vbask", decrement_vbask(self.ob))

OB_decrement_vbbid ==
    /\ OBCall
    /\ IF bids_index_raises(self.ob)
       THEN OBRaises("decrement_vbbid", {"IndexError"})
       ELSE OBReturns("decrement_vbbid", decrement_vbbid(self.ob))

OB_increment_vbbid ==
    /\ OBCall
    /\ IF bids_index_raises(self.ob)
       THEN OBRaises("increment_vbbid", {"IndexError"})
       ELSE OBReturns("increment_vbbid", increment_vbbid(self.ob))

InitOB ==
    /\ \E ob \in Books :
          /\ self = [cls |-> "MyOrderBook", ob |-> ob]
          /\ p = <<ob>>
    /\ pc = "ob"
    /\ result = <<>>
    /\ count = 0
    /\ trial = 0
    /\ j = 0
    /\ summed = 0

NextOB ==
    \/ OB_spread
    \/ OB_vbbid
    \/ OB_vbask
    \/ OB_increment_vbask
    \/ OB_decrement_vbask
    \/ OB_decrement_vbbid
    \/ OB_increment_vbbid

SpecOB == InitOB /\ [][NextOB]_vars

\* C12: on a side whose best level has volume v >= 1, an increment at best
\* followed immediately by a decrement at best on the same side leaves the
\* best price, the best volume and the number of levels of that side as they
\* were, and the other side untouched.
C12_IncrementThenDecrement ==
    \A i \in 1..(Len(result) - 1) :
        /\ (/\ result[i] = "increment_vbask" /\ result[i + 1] = "decrement_vbask"
            /\ vbask(p[i]) >= 1) =>
              /\ Len(p) >= i + 2
              /\ DOMAIN p[i + 2].asks # {}
              /\ best_ask(p[i + 2]) = best_ask(p[i])
              /\ vbask(p[i + 2]) = vbask(p[i])
              /\ Cardinality(DOMAIN p[i + 2].asks) = Cardinality(DOMAIN p[i].asks)
              /\ p[i + 2].asks = p[i].asks
              /\ p[i + 2].bids = p[i].bids
        /\ (/\ result[i] = "increment_vbbid" /\ result[i + 1] = "decrement_vbbid"
            /\ vbbid(p[i]) >= 1) =>
              /\ Len(p) >= i + 2
              /\ DOMAIN p[i + 2].bids # {}
              /\ best_bid(p[i + 2]) = best_bid(p[i])
              /\ vbbid(p[i + 2]) = vbbid(p[i])
              /\ Cardinality(DOMAIN p[i + 2].bids) = Cardinality(DOMAIN p[i].bids)
              /\ p[i + 2].bids = p[i].bids
              /\ p[i + 2].asks = p[i].asks

\* an increment and a decrement have just been made on a best ask level that
\* held a single unit, with a second ask level behind it
C12_Witness ==
    /\ pc = "ob" /\ Len(result) >= 2 /\ Len(p) = Len(result) + 1
    /\ result[Len(result) - 1] = "increment_vbask"
    /\ result[Len(result)] = "decrement_vbask"
    /\ vbask(p[Len(result) - 1]) = 1
    /\ Cardinality(DOMAIN p[Len(result) - 1].asks) = 2
    /\ self.ob = p[Len(result) - 1]

\* The side a call reads the best level of has no levels in the book ob.
OnEmptySide(name, ob) ==
    CASE name \in {"vbbid", "increment_vbbid", "decrement_vbbid"} ->
            DOMAIN ob.bids = {}
      [] name \in {"vbask", "increment_vbask", "decrement_vbask"} ->
            DOMAIN ob.asks = {}
      [] OTHER -> DOMAIN ob.bids = {} \/ DOMAIN ob.asks = {}

\* C13 as stated: a query or a mutation of the best level of a side without
\* levels fails with EmptySideError and does not succeed silently.
C13_EmptySideError ==
    (Len(result) >= 1 /\ OnEmptySide(result[Len(result)], p[Len(result)])) =>
        /\ pc = "EmptySideError"
        /\ Len(p) = Len(result)

\* C13 amended: a query or a mutation of the best level of a side without
\* levels raises IndexError (spread(): AssertionError, or IndexError when
\* assertions are off); the call assigns nothing to the book, no call
\* follows it, and it never returns.
C13_EmptySideRaises ==
    /\ (Len(result) >= 1 /\ OnEmptySide(result[Len(result)], p[Len(result)])) =>
          /\ pc \in (IF result[Len(result)] = "spread"
                     THEN {"AssertionError", "IndexError"}
                     ELSE {"IndexError"})
          /\ Len(p) = Len(result)
          /\ self.ob = p[Len(p)]
    /\ pc # "ob" =>
          /\ Len(result) >= 1
          /\ OnEmptySide(result[Len(result)], p[Len(result)])

\* a decrement at best was tried on an empty bid side, the ask side holding
\* a level
C13_Witness ==
    /\ pc = "IndexError" /\ Len(result) >= 1
    /\ result[Len(result)] = "decrement_vbbid"
    /\ DOMAIN self.ob.bids = {} /\ DOMAIN self.ob.asks # {}

\* C14: in BidOrderExecution and MakingSpread, whenever the sum of the event
\* rates update_state() builds is <= 0, the event draw fails and no event is
\* applied to the state.
C14_DegenerateRate ==
    [][ (/\ self.cls \in {"BidOrderExecution", "MakingSpread"}
         /\ pc = "update"
         /\ SumSeq(pevent(self)) <= 0) =>
            (pc' = "raised" /\ self' = self) ]_vars

\* C15: a model configured with a non-positive spread or a non-positive
\* initial best-bid or best-ask volume is rejected at construction: no trial
\* of it starts and no update_state() is applied.
C15_InvalidConfigurationRejected ==
    (\/ self.bbid_orders <= 0
     \/ self.bask_orders <= 0
     \/ self.cls \in BookModels /\ self.spread <= 0) =>
        (pc = "for" /\ trial = 0)

\* ------------------------------------------- the trial loop on two workers
\* The body of evaluate()'s for loop run once by each of two workers on the
\* same experiment object: the simulation state is the attributes of self,
\* the only place the methods keep it.  pc[w] is worker w's position in the
\* body, p[w] the draws its update_state() calls made, result[w] how its
\* trial ended, count the merged success count.
MaxUpdates == 2

Workers == {1, 2}

ParModels == {"BidOrderExecution", "MakingSpread"}

ParReset ==
    \E w \in Workers :
        /\ pc[w] = "reset"
        /\ self' = reset_state(self)
        /\ pc' = [pc EXCEPT ![w] = "update"]
        /\ UNCHANGED <<count, trial, result, p, j, summed>>

ParUpdate ==
    \E w \in Workers :
        /\ pc[w] = "update"
        /\ Len(p[w]) < MaxUpdates
        /\ ~update_raises(self)
        /\ \E event \in choice(pevent(self)) :
             \E gt \in cancel_draw(self, event) :
                /\ InBounds(update_state(self, event, gt))
                /\ self' = update_state(self, event, gt)
                /\ p' = [p EXCEPT ![w] = Append(@, <<event, gt>>)]
        /\ pc' = [pc EXCEPT ![w] = "success"]
        /\ UNCHANGED <<count, trial, result, j, summed>>

ParUpdateRaises ==
    \E w \in Workers :
        /\ pc[w] = "update"
        /\ update_raises(self)
        /\ pc' = [pc EXCEPT ![w] = "raised"]
        /\ UNCHANGED <<self, count, trial, result, p, j, summed>>

ParCheckSuccess ==
    \E w \in Workers :
        /\ pc[w] = "success"
        /\ IF success(self)
           THEN /\ count' = count + 1
                /\ result' = [result EXCEPT ![w] = "success"]
                /\ pc' = [pc EXCEPT ![w] = "ended"]
           ELSE /\ pc' = [pc EXCEPT ![w] = "failure"]
                /\ UNCHANGED <<count, result>>
        /\ UNCHANGED <<self, trial, p, j, summed>>

ParCheckFailure ==
    \E w \in Workers :
        /\ pc[w] = "failure"
        /\ IF failure(self)
           THEN /\ result' = [result EXCEPT ![w] = "failure"]
                /\ pc' = [pc EXCEPT ![w] = "ended"]
           ELSE /\ pc' = [pc EXCEPT ![w] = "update"]
                /\ UNCHANGED result
        /\ UNCHANGED <<self, count, trial, p, j, summed>>

InitPar ==
    /\ self \in {e \in Experiments : e.cls \in ParModels /\ e.trials = 2}
    /\ pc = [w \in Workers |-> "reset"]
    /\ p = [w \in Workers |-> <<>>]
    /\ result = [w \in Workers |-> "running"]
    /\ count = 0
    /\ trial = 0
    /\ j = 0
    /\ summed = 0

NextPar ==
    \/ ParReset
    \/ ParUpdate
    \/ ParUpdateRaises
    \/ ParCheckSuccess
    \/ ParCheckFailure

SpecPar == InitPar /\ [][NextPar]_vars

\* The state a trial reaches alone: its own draws applied, in order, to the
\* starting configuration.
RECURSIVE Replay(_, _)
Replay(s, draws) ==
    IF draws = <<>> THEN s
    ELSE Replay(update_state(s, Head(draws)[1], Head(draws)[2]), Tail(draws))

Alone(w) == Replay(reset_state(self), p[w])

FirstInSpread(s) == IF s.cls = "MidpriceUp" THEN 4 ELSE 6

\* C17: in MidpriceUp and MakingSpreadS (volumes >= 1, positive arrival and
\* market-order rates), for each side and each distance i in 1..S-1, the
\* event drawn with that side's rate lambda_(i) puts a level of volume 1 on
\* that side i ticks inside its best price and changes nothing else.
C17_InSpreadLevels ==
    (/\ self.cls \in BookModels /\ pc = "update"
     /\ self.bbid_orders >= 1 /\ self.bask_orders >= 1
     /\ self.params.lamda > 0 /\ self.params.mu > 0
     /\ ~update_raises(self)) =>
        \A event \in choice(pevent(self)) :
            \A i \in 1..(self.S - 1) :
                /\ event = FirstInSpread(self) + (i - 1) =>
                      update_state(self, event, FALSE) =
                          [self EXCEPT !.ob.asks =
                              SetItem(@, best_ask(self.ob) - i, 1)]
                /\ event = FirstInSpread(self) + (self.S - 1) + (i - 1) =>
                      update_state(self, event, FALSE) =
                          [self EXCEPT !.ob.bids =
                              SetItem(@, best_bid(self.ob) + i, 1)]

\* C18 as stated: MakingSpread.failure() is true exactly when a side's
\* resting volume is 0 while the owner's index on that same side is > 0
\* (checked where evaluate() asks it, from volumes >= 1).
C18_FailureSameSide ==
    (/\ self.cls = "MakingSpread" /\ pc \in {"success", "failure"}
     /\ self.bbid_orders >= 1 /\ self.bask_orders >= 1) =>
        (failure(self) <=> \/ self.xb = 0 /\ self.bid_idx > 0
                           \/ self.xa = 0 /\ self.ask_idx > 0)

\* C18 amended: MakingSpread.failure() is true exactly when a side's resting
\* volume is 0 while the owner's index on the opposite side is > 0 (xb = 0
\* with ask_idx > 0, or xa = 0 with bid_idx > 0); a trial whose success()
\* was not true ends uncounted exactly then, and goes on to the next update
\* otherwise.
C18_FailureOppositeSide ==
    [][ (self.cls = "MakingSpread" /\ pc = "failure") =>
          LET away == \/ self.xb = 0 /\ self.ask_idx > 0
                      \/ self.xa = 0 /\ self.bid_idx > 0
          IN  /\ failure(self) <=> away
              /\ (pc' = "for" /\ trial' = trial + 1 /\ count' = count) <=> away
              /\ (pc' = "update" /\ trial' = trial) <=> ~away ]_vars

\* the bid side was consumed, the owner's bid filled with it, while the
\* owner's ask is still queued: failure() is asked
C18_Witness ==
    /\ self.cls = "MakingSpread" /\ pc = "failure"
    /\ self.bbid_orders >= 1 /\ self.bask_orders >= 1
    /\ self.xb = 0 /\ self.bid_idx = 0
    /\ self.xa >= 1 /\ self.ask_idx > 0

\* C19 as stated: MakingSpreadS.failure() is true exactly when a second
\* level exists on a side whose owner index is > 0, or a side is empty while
\* the owner's index on that same side is > 0 (checked where evaluate() asks
\* it, from volumes >= 1).
C19_FailureSameSide ==
    (/\ self.cls = "MakingSpreadS" /\ pc \in {"success", "failure"}
     /\ self.bbid_orders >= 1 /\ self.bask_orders >= 1) =>
        (failure(self) <=>
            \/ Cardinality(DOMAIN self.ob.bids) > 1 /\ self.bid_idx > 0
            \/ Cardinality(DOMAIN self.ob.asks) > 1 /\ self.ask_idx > 0
            \/ Cardinality(DOMAIN self.ob.bids) = 0 /\ self.bid_idx > 0
            \/ Cardinality(DOMAIN self.ob.asks) = 0 /\ self.ask_idx > 0)

\* C19 amended: MakingSpreadS.failure() is true exactly when a second level
\* exists on either side while either owner index is nonzero, or a side is
\* empty while the owner's index on the opposite side is > 0 (asks empty with
\* bid_idx > 0, bids empty with ask_idx > 0); a trial whose success() was not
\* true ends uncounted exactly then.
C19_FailureEitherSide ==
    [][ (self.cls = "MakingSpreadS" /\ pc = "failure") =>
          LET moved ==
                \/ /\ \/ Cardinality(DOMAIN self.ob.bids) > 1
                      \/ Cardinality(DOMAIN self.ob.asks) > 1
                   /\ self.bid_idx # 0 \/ self.ask_idx # 0
                \/ Cardinality(DOMAIN self.ob.asks) = 0 /\ self.bid_idx > 0
                \/ Cardinality(DOMAIN self.ob.bids) = 0 /\ self.ask_idx > 0
          IN  /\ failure(self) <=> moved
              /\ (pc' = "for" /\ trial' = trial + 1 /\ count' = count) <=> moved
              /\ (pc' = "update" /\ trial' = trial) <=> ~moved ]_vars

\* a second ask level has appeared after the owner's ask was filled, the
\* owner's bid still queued: failure() is asked
C19_Witness ==
    /\ self.cls = "MakingSpreadS" /\ pc = "failure"
    /\ self.bbid_orders >= 1 /\ self.bask_orders >= 1
    /\ Cardinality(DOMAIN self.ob.asks) = 2
    /\ Cardinality(DOMAIN self.ob.bids) = 1
    /\ self.ask_idx = 0 /\ self.bid_idx > 0

\* C20: whenever a MakingSpreadS trial (volumes >= 1, positive arrival and
\* market-order rates) ends in success, both queue indices are 0 and neither
\* side of the book holds more than one price level.
C20_SuccessWithSingleLevels ==
    (/\ self.cls = "MakingSpreadS" /\ pc = "success" /\ success(self)
     /\ self.bbid_orders >= 1 /\ self.bask_orders >= 1
     /\ self.params.lamda > 0 /\ self.params.mu > 0) =>
        /\ self.bid_idx = 0 /\ self.ask_idx = 0
        /\ Cardinality(DOMAIN self.ob.bids) <= 1
        /\ Cardinality(DOMAIN self.ob.asks) <= 1

\* C21: in MidpriceUp started with volumes >= 1, a trial that is still
\* running has exactly one price level on each side; the check after an
\* event ends the trial in success exactly when the bid side has two levels
\* or the ask side is empty, in failure exactly when the ask side has two
\* levels or the bid side is empty, and the two never hold together.
C21_MidpriceTrial ==
    /\ [](/\ self.cls = "MidpriceUp" /\ pc = "update"
          /\ self.bbid_orders >= 1 /\ self.bask_orders >= 1
          => /\ Cardinality(DOMAIN self.ob.bids) = 1
             /\ Cardinality(DOMAIN self.ob.asks) = 1)
    /\ [][ (/\ self.cls = "MidpriceUp"
            /\ self.bbid_orders >= 1 /\ self.bask_orders >= 1) =>
             LET up == \/ Cardinality(DOMAIN self.ob.bids) >= 2
                       \/ Cardinality(DOMAIN self.ob.asks) = 0
                 down == \/ Cardinality(DOMAIN self.ob.asks) >= 2
                         \/ Cardinality(DOMAIN self.ob.bids) = 0
             IN  /\ pc = "success" =>
                       /\ ~(up /\ down)
                       /\ (pc' = "for" /\ count' = count + 1) <=> up
                       /\ pc' = "failure" <=> ~up
                 /\ pc = "failure" =>
                       /\ (pc' = "for" /\ count' = count) <=> down
                       /\ pc' = "update" <=> ~down ]_vars

\* an in-spread bid arrival has given the bid side a second level: the
\* success check is about to end the trial
C21_Witness ==
    /\ self.cls = "MidpriceUp" /\ pc = "success"
    /\ self.bbid_orders >= 1 /\ self.bask_orders >= 1
    /\ Cardinality(DOMAIN self.ob.bids) = 2
    /\ Cardinality(DOMAIN self.ob.asks) = 1

\* C22: in every state in which update_state() is called (volumes started
\* >= 1), in all four models, every entry of the event-rate vector is >= 0,
\* the cancellation rate of a side carrying an owner order being
\* theta * (volume - 1) when the owner's index there is > 0 and
\* theta * volume when it is 0.
C22_RatesNonNegative ==
    (/\ self.cls \in OwnerModels \cup BookModels /\ pc = "update"
     /\ self.bbid_orders >= 1 /\ self.bask_orders >= 1
     /\ ~index_raises(self)) =>
        LET rates == pevent(self)
            vb == IF self.cls \in BookModels THEN vbbid(self.ob) ELSE self.xb
            va == IF self.cls \in BookModels THEN vbask(self.ob) ELSE self.xa
        IN  /\ \A i \in 1..Len(rates) : rates[i] >= 0
            /\ self.cls \in OwnerModels =>
                  rates[5] = self.params.theta
                                * (IF self.bid_idx > 0 THEN vb - 1 ELSE vb)
            /\ self.cls \in {"MakingSpread", "MakingSpreadS"} =>
                  rates[6] = self.params.theta
                                * (IF self.ask_idx > 0 THEN va - 1 ELSE va)

\* The volume resting at a price of one side of a book, 0 when the side has
\* no level there.
VolumeAt(levels, price) == IF price \in DOMAIN levels THEN levels[price] ELSE 0

\* The best-bid and best-ask volume a model's state holds.
BidVolume(s) ==
    IF s.cls \in BookModels
    THEN (IF DOMAIN s.ob.bids = {} THEN 0 ELSE vbbid(s.ob))
    ELSE s.xb

AskVolume(s) ==
    IF s.cls \in BookModels
    THEN (IF DOMAIN s.ob.asks = {} THEN 0 ELSE vbask(s.ob))
    ELSE s.xa

\* The state after a cancellation on the bid (event 4) or the ask (event 5)
\* keeps everything but that side's volume and index: the volume at the
\* best price is one less, the index the same or, when the draw exceeded
\* the ratio, one less, and not below 0.
BidCancelled(s, s2, gt) ==
    /\ IF s.cls \in BookModels
       THEN /\ VolumeAt(s2.ob.bids, best_bid(s.ob)) = vbbid(s.ob) - 1
            /\ s2.ob.asks = s.ob.asks
            /\ DOMAIN s2.ob.bids \subseteq DOMAIN s.ob.bids
       ELSE s2.xb = s.xb - 1 /\ s2.xa = s.xa
    /\ s2.bid_idx = (IF gt THEN s.bid_idx - 1 ELSE s.bid_idx)
    /\ s2.bid_idx >= 0
    /\ "ask_idx" \in DOMAIN s => s2.ask_idx = s.ask_idx

AskCancelled(s, s2, gt) ==
    /\ IF s.cls \in BookModels
       THEN /\ VolumeAt(s2.ob.asks, best_ask(s.ob)) = vbask(s.ob) - 1
            /\ s2.ob.bids = s.ob.bids
            /\ DOMAIN s2.ob.asks \subseteq DOMAIN s.ob.asks
       ELSE s2.xa = s.xa - 1 /\ s2.xb = s.xb
    /\ s2.bid_idx = s.bid_idx
    /\ "ask_idx" \in DOMAIN s =>
          /\ s2.ask_idx = (IF gt THEN s.ask_idx - 1 ELSE s.ask_idx)
          /\ s2.ask_idx >= 0

\* C23: in BidOrderExecution, MakingSpread and MakingSpreadS, a cancellation
\* event takes exactly one unit off its side's resting volume and changes
\* the owner's index on that side by 0 or -1, never below 0, the index moving
\* only when the uniform draw exceeded (volume - idx) / effective_rate.
C23_Cancellation ==
    (/\ self.cls \in OwnerModels /\ pc = "update"
     /\ ~update_raises(self)) =>
        /\ \A gt \in (IF 4 \in choice(pevent(self))
                      THEN cancel_draw(self, 4) ELSE {}) :
              BidCancelled(self, update_state(self, 4, gt), gt)
        /\ \A gt \in (IF 5 \in choice(pevent(self))
                      THEN cancel_draw(self, 5) ELSE {}) :
              AskCancelled(self, update_state(self, 5, gt), gt)

\* without market orders, a cancellation ahead of the owner has moved the
\* bid index from 2 to 1
C23_Witness ==
    /\ self.cls = "MakingSpread" /\ pc = "success"
    /\ self.params.mu = 0 /\ self.params.theta > 0
    /\ self.bid_pos = 2 /\ self.bid_idx = 1 /\ self.xb >= 1

\* The number of entries of the rate vector: six events, four in
\* MidpriceUp, and S - 1 in-spread entries a side in the book-aware models.
RateCount(s) ==
    CASE s.cls = "MidpriceUp" -> 4 + 2 * (s.S - 1)
      [] s.cls = "MakingSpreadS" -> 6 + 2 * (s.S - 1)
      [] OTHER -> 6

\* C24: each update_state() that draws applies exactly one event, of index
\* in 0..len(rates)-1 and of probability rate / sum > 0 (the probabilities
\* are the rates over their sum, so they sum to 1): an event of rate 0 is
\* never drawn, with the six-entry vectors and with those that carry
\* 2 * (S - 1) in-spread entries.
C24_OneEventByRate ==
    [][ (pc = "update" /\ pc' = "success") =>
          LET rates == pevent(self)
          IN  /\ Len(rates) = RateCount(self)
              /\ SumSeq(rates) # 0
              /\ \E event \in 0..(Len(rates) - 1) :
                    /\ rates[event + 1] # 0
                    /\ rates[event + 1] * SumSeq(rates) > 0
                    /\ \E gt \in BOOLEAN :
                          self' = update_state(self, event, gt) ]_vars

\* an in-spread arrival was drawn from a ten-entry vector of MakingSpreadS
\* in which other entries have rate 0
C24_Witness ==
    /\ self.cls = "MakingSpreadS" /\ self.S = 3 /\ pc = "success"
    /\ self.params.theta = 0 /\ self.params.lambda_[2] = 0
    /\ self.params.lambda_[1] > 0
    /\ Cardinality(DOMAIN self.ob.asks) = 2

\* ------------------------------------ experiments on valid configurations
\* The experiments whose starting volumes are at least 1 and whose starting
\* positions lie between 1 and the volume of their side.
MaxStart == 2

ValidExperiments ==
    {BidOrderExecution_reset_state(c) :
        c \in {x \in [cls : {"BidOrderExecution"}, trials : TrialCounts,
                      params : Params,
                      bbid_orders : 1..MaxStart, bask_orders : 1..MaxStart,
                      bid_pos : 1..MaxStart] :
                  x.bid_pos <= x.bbid_orders}}
    \cup
    {MakingSpread_reset_state(c) :
        c \in {x \in [cls : {"MakingSpread"}, trials : TrialCounts,
                      params : Params,
                      bbid_orders : 1..MaxStart, bask_orders : 1..MaxStart,
                      bid_pos : 1..MaxStart, ask_pos : 1..MaxStart] :
                  x.bid_pos <= x.bbid_orders /\ x.ask_pos <= x.bask_orders}}
    \cup
    {MidpriceUp_reset_state(c) :
        c \in [cls : {"MidpriceUp"}, trials : TrialCounts, params : BookParams,
               bbid_orders : 1..MaxStart, bask_orders : 1..MaxStart,
               spread : Spreads]}
    \cup
    {MakingSpreadS_reset_state(c) :
        c \in {x \in [cls : {"MakingSpreadS"}, trials : TrialCounts,
                      params : BookParams,
                      bbid_orders : 1..MaxStart, bask_orders : 1..MaxStart,
                      bid_pos : 1..MaxStart, ask_pos : 1..MaxStart,
                      spread : Spreads] :
                  x.bid_pos <= x.bbid_orders /\ x.ask_pos <= x.bask_orders}}

InitValid ==
    /\ self \in ValidExperiments
    /\ count = 0
    /\ trial = 0
    /\ pc = "for"
    /\ result = <<>>
    /\ p = <<>>
    /\ j = 0
    /\ summed = 0

SpecValid == InitValid /\ [][Next]_vars

\* update_state() drawing one given event
UpdateEvent(event) ==
    /\ pc = "update"
    /\ ~update_raises(self)
    /\ event \in choice(pevent(self))
    /\ \E gt \in cancel_draw(self, event) :
          /\ InBounds(update_state(self, event, gt))
          /\ self' = update_state(self, event, gt)
    /\ pc' = "success"
    /\ UNCHANGED <<count, trial, result, p, j, summed>>

\* The event indices of a rate vector without in-spread entries.
EventIndices == 0..5

\* Positive arrival and market-order rates, and a spread of one tick in the
\* book-aware models, whose rate vectors then have no in-spread entries.
InitFair ==
    /\ InitValid
    /\ self.params.lamda > 0
    /\ self.params.mu > 0
    /\ self.cls \in BookModels => self.spread = 1

\* evaluate() keeps running its loop, and every event that can be drawn
\* again and again is drawn again and again.
SpecFair ==
    /\ InitFair
    /\ [][Next]_vars
    /\ WF_vars(ForTrial)
    /\ WF_vars(UpdateRaises)
    /\ WF_vars(CheckSuccess)
    /\ WF_vars(CheckFailure)
    /\ WF_vars(Return)
    /\ \A event \in EventIndices : SF_vars(UpdateEvent(event))

\* C25: with lamda > 0, mu > 0, theta >= 0 and starting volumes and
\* positions >= 1 (positions within the volumes), every trial that starts
\* reaches a check at which success() or failure() is true, every event of
\* positive rate being drawn fairly.
C25_TrialsEnd ==
    (pc = "update")
        ~> (pc \in {"success", "failure"} /\ (success(self) \/ failure(self)))

\* C26: in BidOrderExecution, MakingSpread and MakingSpreadS started with
\* 1 <= position <= volume, every reachable state has
\* 0 <= bid_idx <= best-bid volume and 0 <= ask_idx <= best-ask volume (an
\* emptied side counting as volume 0), no resting volume is negative, and
\* update_state() is never called on an empty side.
C26_IndicesWithinVolumes ==
    self.cls \in OwnerModels =>
        /\ 0 <= self.bid_idx
        /\ self.bid_idx <= BidVolume(self)
        /\ self.cls # "BidOrderExecution" =>
              /\ 0 <= self.ask_idx
              /\ self.ask_idx <= AskVolume(self)
        /\ BidVolume(self) >= 0
        /\ AskVolume(self) >= 0
        /\ pc = "update" => BidVolume(self) >= 1 /\ AskVolume(self) >= 1

\* C27: in the three models with an owner order no event of update_state()
\* increases the owner's index on a side, and the index goes from 1 to 0
\* only by the market order of that side (event 2 on the bid, event 3 on the
\* ask): no cancellation that can be drawn takes it from 1 to 0.
C27_IndexLeavesOneByMarketOrder ==
    (/\ self.cls \in OwnerModels /\ pc = "update"
     /\ ~update_raises(self)) =>
        \A event \in choice(pevent(self)) :
            \A gt \in cancel_draw(self, event) :
                LET s2 == update_state(self, event, gt)
                IN  /\ s2.bid_idx <= self.bid_idx
                    /\ (self.bid_idx = 1 /\ s2.bid_idx = 0) => event = 2
                    /\ "ask_idx" \in DOMAIN self =>
                          /\ s2.ask_idx <= self.ask_idx
                          /\ (self.ask_idx = 1 /\ s2.ask_idx = 0) => event = 3

\* the owner's bid, first of a queue of at least two with cancellations
\* possible, has been executed
C27_Witness ==
    /\ self.cls = "MakingSpread" /\ pc = "success"
    /\ self.params.theta > 0
    /\ self.bid_pos = 1 /\ self.bid_idx = 0 /\ self.xb >= 1

\* C28: with starting volumes >= 1 and 1 <= position <= volume, in no state
\* reached after an update_state() of any of the four models do success()
\* and failure() both hold, so the order of the two checks in evaluate()
\* never decides a trial.
C28_SuccessExcludesFailure ==
    pc \in {"success", "failure"} => ~(success(self) /\ failure(self))

\* an update of MidpriceUp has emptied the bid side: failure() alone holds
\* when success() is asked first
C28_Witness ==
    /\ self.cls = "MidpriceUp" /\ pc = "success"
    /\ failure(self) /\ ~success(self)
    /\ DOMAIN self.ob.bids = {}

\* MakingSpread without market orders, some other rate being positive.
NoMarketOrders ==
    /\ self.cls = "MakingSpread"
    /\ self.params.mu = 0
    /\ self.params.lamda + self.params.theta > 0

\* Neither success() nor failure() holds: both indices and both volumes
\* are at least 1, and no trial has ended.
NoTrialEnds ==
    /\ ~success(self) /\ ~failure(self)
    /\ self.bid_idx >= 1 /\ self.ask_idx >= 1
    /\ self.xb >= 1 /\ self.xa >= 1
    /\ trial = 0 /\ count = 0

\* C29 as stated: in MakingSpread with mu = 0 (lamda + theta > 0) and
\* 1 <= position <= volume on both sides, no reachable state satisfies
\* success() or failure(), indices and volumes stay >= 1, and the loop of
\* evaluate() never terminates: evaluate() neither returns nor is left.
C29_NeverTerminates ==
    NoMarketOrders => (NoTrialEnds /\ pc \notin {"done", "raised"})

\* C29: in MakingSpread with mu = 0 (lamda + theta > 0) and
\* 1 <= position <= volume on both sides, no reachable state satisfies
\* success() or failure(), indices and volumes stay >= 1 and evaluate()
\* never returns; it is left only by the exception of a draw whose rates
\* are all 0, which needs lamda = 0 and both volumes down to 1.
C29_NoTrialEnds ==
    NoMarketOrders =>
        /\ NoTrialEnds
        /\ pc # "done"
        /\ pc = "raised" =>
              /\ self.params.lamda = 0
              /\ self.xb = 1 /\ self.xa = 1
              /\ SumSeq(pevent(self)) = 0

\* without arrivals a cancellation has taken the bid volume from 2 to 1 and
\* the next draw, over rates that are all 0, has raised
C29_Witness ==
    /\ NoMarketOrders /\ pc = "raised"
    /\ self.bbid_orders = 2 /\ self.xb = 1

\* ------------------------------------------------- tests/test.py: Parser
\* The longest file read.
MaxLines == 3

\* A line of the file as the pieces `startswith` and `split(": ")` see: the
\* connection lines begin with wss, a data line is a timestamp, the
\* separator and a payload, and a malformed line has no separator.
Lines ==
    {<<"wss", "://stream">>,
     <<"1", ": ", "aggTrade">>,
     <<"2", ": ", "depth">>,
     <<"junk">>}

Files == UNION {[1..n -> Lines] : n \in 0..MaxLines}

None == [type |-> "NoneType"]

\* message.startswith('wss')
startswith_wss(message) == Head(message) = "wss"

\* BaseUpdateMessage.fill: v['ts'], v['payload'] = v['raw'].split(": ")
\* raises unless the split gives two parts.
parser_raises(message) == ~(Len(message) = 3 /\ message[2] = ": ")

\* self.parser(raw=message)
parser(s, message) ==
    [type |-> s.parser, ts |-> message[1], payload |-> message[3]]

\* Parser.parse
Parser_parse_raises(message) ==
    ~startswith_wss(message) /\ parser_raises(message)

Parser_parse(s, message) ==
    IF startswith_wss(message) THEN None ELSE parser(s, message)

\* Parser.__init__
Parser(source) ==
    [cls |-> "Parser",
     parser |-> IF source = "binance" THEN "BinanceUpdateMessage"
                ELSE "BybitUpdateMessage",
     results |-> <<>>]

\* Parser.read, one line of the loop: a result that is not None is skipped
Read_continue ==
    /\ pc = "read" /\ j < Len(p)
    /\ ~Parser_parse_raises(p[j + 1])
    /\ Parser_parse(self, p[j + 1]) # None
    /\ j' = j + 1
    /\ UNCHANGED <<self, count, trial, pc, result, p, summed>>

\* Parser.read, one line of the loop: a result that is None is appended
Read_append ==
    /\ pc = "read" /\ j < Len(p)
    /\ ~Parser_parse_raises(p[j + 1])
    /\ Parser_parse(self, p[j + 1]) = None
    /\ self' = [self EXCEPT !.results = Append(@, Parser_parse(self, p[j + 1]))]
    /\ j' = j + 1
    /\ UNCHANGED <<count, trial, pc, result, p, summed>>

\* Parser.read, one line of the loop: the parser's validation error is not
\* caught
Read_raises ==
    /\ pc = "read" /\ j < Len(p)
    /\ Parser_parse_raises(p[j + 1])
    /\ pc' = "raised"
    /\ UNCHANGED <<self, count, trial, result, p, j, summed>>

\* Parser.read: return self.results
Read_return ==
    /\ pc = "read" /\ j = Len(p)
    /\ result' = self.results
    /\ pc' = "returned"
    /\ UNCHANGED <<self, count, trial, p, j, summed>>

InitParser ==
    /\ \E source \in {"binance", "bybit"} : self = Parser(source)
    /\ p \in Files
    /\ pc = "read"
    /\ j = 0
    /\ result = <<>>
    /\ count = 0
    /\ trial = 0
    /\ summed = 0

NextParser ==
    \/ Read_continue
    \/ Read_append
    \/ Read_raises
    \/ Read_return

SpecParser == InitParser /\ [][NextParser]_vars

\* The lines of a file that do not start with wss, in their order.
DataLines(data) == SelectSeq(data, LAMBDA message : ~startswith_wss(message))

\* C30: after Parser.read(path) on a file with at least one data line the
\* results are non-empty and hold, in order, the parsed message of every
\* line that does not start with wss, and nothing (no None) for the lines
\* that do.
C30_ReadKeepsMessages ==
    (pc = "returned" /\ DataLines(p) # <<>>) =>
        /\ result # <<>>
        /\ result = [i \in 1..Len(DataLines(p)) |->
                        Parser_parse(self, DataLines(p)[i])]

====
